---- MODULE Spec2Model ----
(***************************************************************************)
(* A model of pkg/cron/cron.go: one Job, the goroutines Start spawns for   *)
(* it, the context tree its cancellation handle lives in, and the callers  *)
(* that configure, start and stop it concurrently.                         *)
(*                                                                         *)
(* Time is a wall clock that advances one tick at a time.  The calendar is *)
(* collapsed to one cyclic field of Cycle values, so the clock is kept     *)
(* modulo Cycle and a timer holds the ticks it still has to wait.          *)
(***************************************************************************)
EXTENDS Integers, Sequences, FiniteSets, TLC

VARIABLES
    constructed,  \* position of the Schedule(expr) call: "pending", "ok", "panic"
    j,            \* the Job's fields
    ctxs,         \* the contexts made so far: ctxs[c] = [parent, err]; 0 is context.Background()
    starting,     \* Start calls that have released the mutex and not yet spawned their goroutine
    loops,        \* the goroutines spawned by Start, in spawn order
    detached,     \* callback invocations running in goroutines of their own (go j.Fn(j.Ctx))
    readers,      \* goroutines holding j.mutex for reading
    now           \* the wall clock, modulo Cycle

vars == <<constructed, j, ctxs, starting, loops, detached, readers, now>>

----------------------------------------------------------------------------
(* Bounds *)

\* goroutines Start may spawn in one run
MaxLoops == 2
\* contexts made in one run: the caller's handle, the Job's default one, WithContext's
MaxCtx == 4
\* detached invocations counted; dispatches beyond this many in flight are not counted
MaxDetached == 2
\* instants in one calendar cycle
Cycle == 2
\* fields in the longest expression handed to Schedule
MaxFields == 7

----------------------------------------------------------------------------
(* Values *)

Nil == "nil"
\* callbacks a caller may pass to Execute
Fns == {"f1"}
\* a second callback, passed to Execute in place of the first
Replacement == "f2"
\* time.UTC and a zone one tick east of it
UTC == "UTC"
Zones == {"UTC", "East"}
Offset(loc) == IF loc = "UTC" THEN 0 ELSE 1

Background == 0
\* the caller's own cancellable handle, as examples/context_job builds it
External == 1

Min(a, b) == IF a < b THEN a ELSE b

----------------------------------------------------------------------------
(* Schedule expressions: strings as sequences of characters *)

E6 == <<"*", " ", "*", " ", "*", " ", "*", " ", "*", " ", "*">>
E5 == <<"0", " ", "*", " ", "*", " ", "*", " ", "*">>
\* "invalid-cron-string", and strings whose whitespace is not one blank per gap
EInvalid == <<"x">>
E4Spaced == <<" ", "*", " ", " ", "*", " ", "*", " ", " ", "*", " ">>
E5Spaced == <<" ", " ", "1", " ", "*", " ", " ", "*", " ", "*", " ", "*", " ">>

\* what a field may read: a wildcard, two numbers, and text no grammar accepts
Tokens == {"*", "0", "1", "x"}

RECURSIVE Join(_)
\* the fields of fs, one blank between neighbours
Join(fs) ==
    IF Len(fs) = 0 THEN <<>>
    ELSE IF Len(fs) = 1 THEN <<fs[1]>>
    ELSE <<fs[1], " ">> \o Join(Tail(fs))

Exprs ==
    {Join(fs) : fs \in UNION {[1..n -> Tokens] : n \in 0..MaxFields}}
        \cup {EInvalid, E4Spaced, E5Spaced}

\* the expressions of the Jobs whose life the model follows
Started == {E6, E5}

\* strings.Fields: the maximal runs of non-space characters
RECURSIVE FieldsFrom(_, _, _)
FieldsFrom(s, i, cur) ==
    IF i > Len(s)
    THEN IF cur = <<>> THEN <<>> ELSE <<cur>>
    ELSE IF s[i] = " "
         THEN IF cur = <<>>
              THEN FieldsFrom(s, i + 1, <<>>)
              ELSE <<cur>> \o FieldsFrom(s, i + 1, <<>>)
         ELSE FieldsFrom(s, i + 1, Append(cur, s[i]))

Fields(s) == FieldsFrom(s, 1, <<>>)

\* cron.NewParser(options): the places the parser expects fields for
SecondParser == <<"Second", "Minute", "Hour", "Dom", "Month", "Dow">>
MinuteParser == <<"Minute", "Hour", "Dom", "Month", "Dow">>

\* lowest value a place admits (day of month and month count from 1)
PlaceMin(place) == IF place \in {"Dom", "Month"} THEN 1 ELSE 0

FieldOk(place, field) ==
    \/ field = <<"*">>
    \/ field = <<"0">> /\ PlaceMin(place) = 0
    \/ field = <<"1">>

\* Parser.Parse: an error unless there is exactly one well-formed field per place
ParseOk(places, s) ==
    LET fs == Fields(s) IN
        /\ Len(fs) = Len(places)
        /\ \A i \in 1..Len(fs) : FieldOk(places[i], fs[i])

\* the parsed schedule: the local readings of the cyclic field it matches,
\* taken from the leading field (the 5-field convention fixes seconds at 0
\* and its leading field is the finest one that remains)
Parse(places, s) ==
    LET fs == Fields(s) IN
        [places |-> Len(places),
         phases |-> IF fs[1] = <<"*">> THEN 0..(Cycle - 1)
                    ELSE IF fs[1] = <<"0">> THEN {0}
                    ELSE {1 % Cycle}]

NoSchedule == [places |-> 0, phases |-> {}]

\* Schedule.Next(t) for t read in zone loc: the ticks from t to the first
\* matching instant strictly after it
RECURSIVE NextFrom(_, _, _, _)
NextFrom(sch, loc, t, d) ==
    IF d >= Cycle \/ ((t + d + Offset(loc)) % Cycle) \in sch.phases
    THEN d
    ELSE NextFrom(sch, loc, t, d + 1)

\* Next admitting t itself when t matches
ScheduleNextInclusive(sch, loc, t) == NextFrom(sch, loc, t, 0)

ScheduleNext(sch, loc, t) == NextFrom(sch, loc, t, 1)

----------------------------------------------------------------------------
(* The context package *)

Err(c) == IF c = Background THEN Nil ELSE ctxs[c].err
\* the context c is registered with as a child
Parent(c) == IF c = Background THEN Background ELSE ctxs[c].parent

RECURSIVE Under(_, _, _)
\* c is p or a descendant of p in cs
Under(cs, c, p) ==
    IF c = p THEN TRUE
    ELSE IF c = Background THEN FALSE
    ELSE Under(cs, cs[c].parent, p)

\* a CancelFunc, or the deadline timer of a handle: c and every descendant
\* not yet cancelled are cancelled, and c leaves its parent's children
Cancel(cs, c) ==
    [i \in DOMAIN cs |->
        IF cs[i].err = Nil /\ Under(cs, i, c)
        THEN [parent |-> IF i = c THEN Background ELSE cs[i].parent, err |-> "Canceled"]
        ELSE cs[i]]

\* context.WithCancel(parent): a child that is born cancelled when parent already is
WithCancel(cs, parent) ==
    Append(cs, [parent |-> parent,
                err |-> IF parent = Background THEN Nil ELSE cs[parent].err])

-----
(* The Job *)

NoJob ==
    [scheduleStr |-> <<>>, Schedule |-> NoSchedule, Blocking |-> FALSE,
     Timezone |-> UTC, Ctx |-> Background, cancelFunc |-> Background,
     Fn |-> Nil, isRunning |-> FALSE]

\* Schedule without the branch for six fields
ParserAlwaysMinute(s) == MinuteParser

ParserFor(s) == IF Len(Fields(s)) = 6 THEN SecondParser ELSE MinuteParser

\* the Job Schedule returns, with c the context it has just derived
NewJob(scheduleStr, c) ==
    [scheduleStr |-> scheduleStr,
     Schedule |-> Parse(ParserFor(scheduleStr), scheduleStr),
     Blocking |-> FALSE,
     Timezone |-> UTC,
     Ctx |-> c,
     cancelFunc |-> c,
     Fn |-> Nil,
     isRunning |-> FALSE]

\* the contexts of the program before Schedule is called: the caller's handle
CallerCtxs == <<[parent |-> Background, err |-> Nil]>>

\* before Schedule is called
InitPending ==
    /\ constructed = "pending"
    /\ j = NoJob
    /\ ctxs = CallerCtxs
    /\ starting = 0
    /\ loops = <<>>
    /\ detached = 0
    /\ readers = 0
    /\ now = 0

Schedule(scheduleStr) ==
    /\ constructed = "pending"
    /\ IF ParseOk(ParserFor(scheduleStr), scheduleStr)
       THEN /\ constructed' = "ok"
            /\ ctxs' = WithCancel(ctxs, Background)
            /\ j' = NewJob(scheduleStr, Len(ctxs) + 1)
       ELSE /\ constructed' = "panic"
            /\ UNCHANGED <<j, ctxs>>
    /\ UNCHANGED <<starting, loops, detached, readers, now>>

\* a Job as Schedule has returned it
Init ==
    \E s \in Started :
        /\ constructed = "ok"
        /\ ctxs = WithCancel(CallerCtxs, Background)
        /\ j = NewJob(s, Len(CallerCtxs) + 1)
        /\ starting = 0
        /\ loops = <<>>
        /\ detached = 0
        /\ readers = 0
        /\ now = 0

Live == constructed = "ok"
\* j.mutex.Lock() can be taken: no reader holds the mutex
CanLock == readers = 0

SetBlocking(blocking) ==
    /\ Live /\ CanLock
    /\ j' = [j EXCEPT !.Blocking = blocking]
    /\ UNCHANGED <<constructed, ctxs, starting, loops, detached, readers, now>>

\* WithContext that derives the new handle from context.Background()
WithContextDetached(ctx) ==
    /\ Live /\ CanLock
    /\ Len(ctxs) < MaxCtx
    /\ LET cs == IF j.cancelFunc # Background THEN Cancel(ctxs, j.cancelFunc) ELSE ctxs IN
        /\ ctxs' = WithCancel(cs, Background)
        /\ j' = [j EXCEPT !.Ctx = Len(ctxs) + 1, !.cancelFunc = Len(ctxs) + 1]
    /\ UNCHANGED <<constructed, starting, loops, detached, readers, now>>

WithContext(ctx) ==
    /\ Live /\ CanLock
    /\ Len(ctxs) < MaxCtx
    /\ LET cs == IF j.cancelFunc # Background THEN Cancel(ctxs, j.cancelFunc) ELSE ctxs IN
        /\ ctxs' = WithCancel(cs, ctx)
        /\ j' = [j EXCEPT !.Ctx = Len(ctxs) + 1, !.cancelFunc = Len(ctxs) + 1]
    /\ UNCHANGED <<constructed, starting, loops, detached, readers, now>>

SetTimezone(loc) ==
    /\ Live /\ CanLock
    /\ j' = [j EXCEPT !.Timezone = loc]
    /\ UNCHANGED <<constructed, ctxs, starting, loops, detached, readers, now>>

Execute(fn) ==
    /\ Live /\ CanLock
    /\ j' = [j EXCEPT !.Fn = fn]
    /\ UNCHANGED <<constructed, ctxs, starting, loops, detached, readers, now>>

\* Start without the test of isRunning
StartUnguarded ==
    /\ Live /\ CanLock
    /\ IF j.Fn = Nil
       THEN UNCHANGED <<j, starting>>
       ELSE /\ starting + Len(loops) < MaxLoops
            /\ j' = [j EXCEPT !.isRunning = TRUE]
            /\ starting' = starting + 1
    /\ UNCHANGED <<constructed, ctxs, loops, detached, readers, now>>

\* Start, up to j.mutex.Unlock(): the guard and the running flag
Start ==
    /\ Live /\ CanLock
    /\ IF j.Fn = Nil \/ j.isRunning
       THEN UNCHANGED <<j, starting>>
       ELSE /\ starting + Len(loops) < MaxLoops
            /\ j' = [j EXCEPT !.isRunning = TRUE]
            /\ starting' = starting + 1
    /\ UNCHANGED <<constructed, ctxs, loops, detached, readers, now>>

\* Start whose goroutine waits on a context of its own, not on the Job's
StartGoDeaf ==
    /\ starting > 0
    /\ starting' = starting - 1
    /\ loops' = Append(loops, [pc |-> "top", done |-> Background, isBlocking |-> FALSE, timer |-> 0, fn |-> Nil])
    /\ UNCHANGED <<constructed, j, ctxs, detached, readers, now>>

\* Start, after the unlock: done := j.Ctx.Done() read without the mutex, then
\* the go statement
StartGo ==
    /\ starting > 0
    /\ starting' = starting - 1
    /\ loops' = Append(loops, [pc |-> "top", done |-> j.Ctx, isBlocking |-> FALSE, timer |-> 0, fn |-> Nil])
    /\ UNCHANGED <<constructed, j, ctxs, detached, readers, now>>

\* Stop without the call of cancelFunc()
StopNoCancel ==
    /\ Live /\ CanLock
    /\ IF j.isRunning
       THEN j' = [j EXCEPT !.isRunning = FALSE]
       ELSE UNCHANGED j
    /\ UNCHANGED <<constructed, ctxs, starting, loops, detached, readers, now>>

\* Stop with cancelFunc() outside the test of isRunning
StopAlwaysCancels ==
    /\ Live /\ CanLock
    /\ j' = [j EXCEPT !.isRunning = FALSE]
    /\ ctxs' = Cancel(ctxs, j.cancelFunc)
    /\ UNCHANGED <<constructed, starting, loops, detached, readers, now>>

Stop ==
    /\ Live /\ CanLock
    /\ IF j.isRunning
       THEN /\ j' = [j EXCEPT !.isRunning = FALSE]
            /\ ctxs' = Cancel(ctxs, j.cancelFunc)
       ELSE UNCHANGED <<j, ctxs>>
    /\ UNCHANGED <<constructed, starting, loops, detached, readers, now>>

----------------------------------------------------------------------------
(* The goroutine of Start *)

Loops == 1..Len(loops)
\* a goroutine that has returned: its locals are gone
Exited == [pc |-> "exit", done |-> Background, isBlocking |-> FALSE, timer |-> 0, fn |-> Nil]
Alive(l) == l \in Loops /\ loops[l].pc # "exit"

\* j.mutex.RLock() at the top of an iteration
LoopRLock(l) ==
    /\ l \in Loops /\ loops[l].pc = "top"
    /\ readers' = readers + 1
    /\ loops' = [loops EXCEPT ![l].pc = "locked"]
    /\ UNCHANGED <<constructed, j, ctxs, starting, detached, now>>

\* the top of the iteration without its j.mutex.RUnlock()
LoopArmKeepsLock(l) ==
    /\ l \in Loops /\ loops[l].pc = "locked"
    /\ loops' = [loops EXCEPT ![l].pc = "select",
                              ![l].timer = ScheduleNext(j.Schedule, j.Timezone, now),
                              ![l].isBlocking = j.Blocking,
                              ![l].fn = j.Fn]
    /\ UNCHANGED <<constructed, j, ctxs, starting, detached, readers, now>>

\* previousRun, currentRun, the timer, isBlocking, then j.mutex.RUnlock();
\* fn keeps, for the length of the wait, the callback the Job had while the
\* iteration held the mutex
LoopArm(l) ==
    /\ l \in Loops /\ loops[l].pc = "locked"
    /\ loops' = [loops EXCEPT ![l].pc = "select",
                              ![l].timer = ScheduleNext(j.Schedule, j.Timezone, now),
                              ![l].isBlocking = j.Blocking,
                              ![l].fn = j.Fn]
    /\ readers' = readers - 1
    /\ UNCHANGED <<constructed, j, ctxs, starting, detached, now>>

\* the timer branch calling j.Fn(j.Ctx) inline in either mode
SelectTimerWaits(l) ==
    /\ l \in Loops /\ loops[l].pc = "select"
    /\ loops[l].timer = 0
    /\ loops' = [loops EXCEPT ![l].pc = "call", ![l].isBlocking = FALSE, ![l].fn = Nil]
    /\ UNCHANGED <<constructed, j, ctxs, starting, detached, readers, now>>

\* the timer branch testing j.Blocking itself instead of the local isBlocking
SelectTimerLive(l) ==
    /\ l \in Loops /\ loops[l].pc = "select"
    /\ loops[l].timer = 0
    /\ IF j.Blocking
       THEN /\ loops' = [loops EXCEPT ![l].pc = "call", ![l].isBlocking = FALSE, ![l].fn = Nil]
            /\ UNCHANGED detached
       ELSE /\ loops' = [loops EXCEPT ![l].pc = "top", ![l].fn = Nil]
            /\ detached' = Min(detached + 1, MaxDetached)
    /\ UNCHANGED <<constructed, j, ctxs, starting, readers, now>>

\* select takes case <-timer.C and runs its body: j.Fn(j.Ctx) inline, or in
\* a goroutine of its own
SelectTimer(l) ==
    /\ l \in Loops /\ loops[l].pc = "select"
    /\ loops[l].timer = 0
    /\ IF loops[l].isBlocking
       THEN /\ loops' = [loops EXCEPT ![l].pc = "call", ![l].isBlocking = FALSE, ![l].fn = Nil]
            /\ UNCHANGED detached
       ELSE /\ loops' = [loops EXCEPT ![l].pc = "top", ![l].fn = Nil]
            /\ detached' = Min(detached + 1, MaxDetached)
    /\ UNCHANGED <<constructed, j, ctxs, starting, readers, now>>

\* select takes case <-done: timer.Stop() and return
SelectDone(l) ==
    /\ l \in Loops /\ loops[l].pc = "select"
    /\ Err(loops[l].done) # Nil
    /\ loops' = [loops EXCEPT ![l] = Exited]
    /\ UNCHANGED <<constructed, j, ctxs, starting, detached, readers, now>>

\* the goroutine ends when the inline callback returns
ReturnEnds(l) ==
    /\ l \in Loops /\ loops[l].pc = "call"
    /\ loops' = [loops EXCEPT ![l] = Exited]
    /\ UNCHANGED <<constructed, j, ctxs, starting, detached, readers, now>>

\* the inline callback returns
Return(l) ==
    /\ l \in Loops /\ loops[l].pc = "call"
    /\ loops' = [loops EXCEPT ![l].pc = "top"]
    /\ UNCHANGED <<constructed, j, ctxs, starting, detached, readers, now>>

\* a detached callback returns
DetachedReturn ==
    /\ detached > 0
    /\ detached' = detached - 1
    /\ UNCHANGED <<constructed, j, ctxs, starting, loops, readers, now>>

----------------------------------------------------------------------------
(* The environment *)

\* the clock advances; armed timers come one tick closer
Tick ==
    /\ now' = (now + 1) % Cycle
    /\ loops' = [l \in Loops |->
                    IF loops[l].pc = "select" /\ loops[l].timer > 0
                    THEN [loops[l] EXCEPT !.timer = @ - 1]
                    ELSE loops[l]]
    /\ UNCHANGED <<constructed, j, ctxs, starting, detached, readers>>

\* the caller's handle is done: its CancelFunc is called, its deadline
\* passes or its signal arrives
ParentCancel ==
    /\ Err(External) = Nil
    /\ ctxs' = Cancel(ctxs, External)
    /\ UNCHANGED <<constructed, j, starting, loops, detached, readers, now>>

----------------------------------------------------------------------------

Next ==
    \/ \E b \in BOOLEAN : SetBlocking(b)
    \/ \E c \in {Background, External} : WithContext(c)
    \/ \E loc \in Zones : SetTimezone(loc)
    \/ \E fn \in Fns : Execute(fn)
    \/ Start
    \/ StartGo
    \/ Stop
    \/ \E l \in 1..MaxLoops : LoopRLock(l)
    \/ \E l \in 1..MaxLoops : LoopArm(l)
    \/ \E l \in 1..MaxLoops : SelectTimer(l)
    \/ \E l \in 1..MaxLoops : SelectDone(l)
    \/ \E l \in 1..MaxLoops : Return(l)
    \/ DetachedReturn
    \/ Tick
    \/ ParentCancel

Spec == Init /\ [][Next]_vars

\* the construction alone, over every expression of Exprs
NextSchedule == \E s \in Exprs : Schedule(s)

SpecSchedule == InitPending /\ [][NextSchedule]_vars

\* one Job whose callback is replaced while it runs; its handle and its zone
\* are left as Schedule made them
NextExecute ==
    \/ \E fn \in Fns \cup {Replacement} : Execute(fn)
    \/ \E b \in BOOLEAN : SetBlocking(b)
    \/ Start
    \/ StartGo
    \/ Stop
    \/ \E l \in 1..MaxLoops : LoopRLock(l)
    \/ \E l \in 1..MaxLoops : LoopArm(l)
    \/ \E l \in 1..MaxLoops : SelectTimer(l)
    \/ \E l \in 1..MaxLoops : SelectDone(l)
    \/ \E l \in 1..MaxLoops : Return(l)
    \/ DetachedReturn
    \/ Tick

SpecExecute == Init /\ [][NextExecute]_vars

\* the goroutine of Start is scheduled again whenever it can take a step, a
\* select with a closed done channel ready infinitely often takes it at last,
\* Start reaches its go statement, and the clock does not stop
LoopStep(l) == LoopRLock(l) \/ LoopArm(l) \/ SelectTimer(l) \/ Return(l)

Fairness ==
    /\ WF_vars(Tick)
    /\ WF_vars(StartGo)
    /\ \A l \in 1..MaxLoops :
        /\ WF_vars(LoopStep(l))
        /\ SF_vars(SelectDone(l))

\* the Job of the tests, "* * * * * *"
InitFair == Init /\ j.scheduleStr = E6

FairSpec == InitFair /\ [][Next]_vars /\ Fairness

----------------------------------------------------------------------------
(* Claims *)

AliveLoops == {l \in Loops : Alive(l)}
\* goroutines Start has spawned or is committed to spawn
Spawns == starting + Len(loops)

\* C1: at most one goroutine of Start is alive at any time, whatever the
\* interleaving of Start, Stop, WithContext and cancellation.
C1_AtMostOneLoop == Cardinality(AliveLoops) <= 1

\* C2: a Start that finds no callback or finds the flag set changes nothing
\* of the Job, the contexts or the goroutines, and an effective Start commits
\* to exactly one goroutine; so while the flag stays set, whoever calls Start
\* and however often, the number of goroutines spawned or to be spawned does
\* not grow.
C2_StartNoOp ==
    /\ [][Start /\ (j.Fn = Nil \/ j.isRunning)
            => UNCHANGED <<j, ctxs, loops, starting>>]_vars
    /\ [][Start /\ ~(j.Fn = Nil \/ j.isRunning)
            => j'.isRunning /\ Spawns' = Spawns + 1]_vars
    /\ [][j.isRunning /\ j'.isRunning => Spawns' = Spawns]_vars

\* C2: the state a second Start, with no Stop since the first, is called in
\* and leaves: the flag set and the one goroutine of the first Start running.
C2_Witness ==
    /\ j.isRunning /\ readers = 0
    /\ Spawns = 1 /\ Len(loops) = 1 /\ loops[1].pc = "select"

\* C3: a Stop that finds the flag clear changes no field of the Job and
\* cancels no context, so that a Job never started, with its callback set and
\* its handle live, is after Stop a Job that Start still starts.
C3_StopNoOp ==
    /\ [][Stop /\ ~j.isRunning => UNCHANGED <<j, ctxs, loops, starting>>]_vars
    /\ [](Live /\ ~j.isRunning /\ readers = 0 /\ j.Fn # Nil /\ Spawns < MaxLoops
            => ENABLED (Start /\ j'.isRunning))

\* C3: the state Stop is called in, and leaves, on a Job that was never
\* started: callback set, flag clear, handle live, no goroutine.
C3_Witness ==
    /\ Live /\ ~j.isRunning /\ j.Fn # Nil
    /\ Spawns = 0 /\ Err(j.Ctx) = Nil
    /\ ENABLED Stop

C5_ParentCancelTerminates ==
    /\ [][ParentCancel /\ Parent(j.Ctx) = External
            => \A l \in AliveLoops :
                loops[l].done # Background /\ ctxs'[loops[l].done].err # Nil]_vars
    /\ \A l \in 1..MaxLoops :
        (Alive(l) /\ j.isRunning /\ Parent(j.Ctx) = External /\ Err(External) # Nil)
            ~> (l \in Loops /\ loops[l] = Exited)
    /\ [][(\A l \in Loops : loops[l] = Exited) /\ starting = 0 /\ j.isRunning
            => (\A l \in DOMAIN loops' : loops'[l] = Exited) /\ detached' <= detached]_vars

\* C5: the goroutine has returned after the caller's handle was cancelled,
\* and Stop was never called: the flag of the one Start is still set.
C5_Witness ==
    /\ j.isRunning /\ Spawns = 1
    /\ Parent(j.Ctx) = External /\ Err(External) # Nil
    /\ Len(loops) = 1 /\ loops[1] = Exited

\* C6: WithContext(parent) cancels the handle the Job had and gives it a
\* new one, registered as a child of parent and live unless parent is
\* already cancelled; a context registered under the caller's handle is
\* cancelled whenever that handle is; and neither Stop nor WithContext ever
\* changes the caller's handle.
C6_WithContextDerives ==
    /\ [][\A p \in {Background, External} :
            WithContext(p)
                => /\ ctxs'[j.Ctx].err # Nil
                   /\ j'.Ctx \notin DOMAIN ctxs /\ j'.Ctx \in DOMAIN ctxs'
                   /\ j'.cancelFunc = j'.Ctx
                   /\ ctxs'[j'.Ctx] = [parent |-> p, err |-> Err(p)]]_vars
    /\ [](\A c \in DOMAIN ctxs :
            ctxs[c].parent = External /\ Err(External) # Nil => ctxs[c].err # Nil)
    /\ [][Stop \/ (\E p \in {Background, External} : WithContext(p))
            => ctxs'[External] = ctxs[External]]_vars

\* C6: a second WithContext has cancelled the handle the first one made and
\* derived a live one from the caller's handle, which is itself still live.
C6_Witness ==
    /\ Len(ctxs) = 4 /\ j.Ctx = 4
    /\ ctxs[3].err # Nil
    /\ Parent(j.Ctx) = External /\ Err(j.Ctx) = Nil /\ Err(External) = Nil

\* C7: once every goroutine the Job has spawned has returned, and no Start
\* is about to spawn another, the running flag is clear.
C7_ExitedMeansStopped ==
    (Len(loops) > 0 /\ AliveLoops = {} /\ starting = 0) => ~j.isRunning

\* the expressions the evaluator accepts, under the convention the number of
\* whitespace-delimited fields selects
Accepts(s) ==
    IF Len(Fields(s)) = 6 THEN ParseOk(SecondParser, s) ELSE ParseOk(MinuteParser, s)

\* C8: for every expression, Schedule either returns a Job (an accepted
\* expression: the Job holds the expression and its schedule, is not
\* running, not blocking, in UTC, without callback, with a new live handle
\* under context.Background()) or panics (a rejected one: no Job, no
\* context); it does nothing else, and a Job that exists holds an accepted
\* expression.
C8_ScheduleAllOrNothing ==
    /\ constructed = "pending" =>
        \A s \in Exprs :
            IF Accepts(s)
            THEN /\ ENABLED (/\ Schedule(s)
                             /\ constructed' = "ok"
                             /\ j' = [scheduleStr |-> s,
                                      Schedule |-> Parse(IF Len(Fields(s)) = 6
                                                         THEN SecondParser
                                                         ELSE MinuteParser, s),
                                      Blocking |-> FALSE, Timezone |-> UTC,
                                      Ctx |-> Len(ctxs) + 1, cancelFunc |-> Len(ctxs) + 1,
                                      Fn |-> Nil, isRunning |-> FALSE]
                             /\ ctxs' = Append(ctxs, [parent |-> Background, err |-> Nil]))
                 /\ ~ENABLED (Schedule(s) /\ constructed' # "ok")
            ELSE /\ ENABLED (Schedule(s) /\ constructed' = "panic" /\ j' = NoJob /\ ctxs' = ctxs)
                 /\ ~ENABLED (Schedule(s) /\ constructed' # "panic")
    /\ constructed = "ok" => Accepts(j.scheduleStr) /\ j.Schedule.places = Len(Fields(j.scheduleStr))
    /\ constructed = "panic" => j = NoJob /\ ctxs = CallerCtxs

\* C8: Schedule has returned the Job of a six-field expression.
C8_Witness ==
    /\ constructed = "ok" /\ Len(Fields(j.scheduleStr)) = 6
    /\ ~j.isRunning /\ ~j.Blocking /\ j.Fn = Nil /\ Err(j.Ctx) = Nil

\* C9: a Start that took effect gets its goroutine; a goroutine returns only
\* when its done channel is closed; and a goroutine whose done channel is
\* never closed (its inline callbacks returning) takes the timer branch of
\* its select again and again, for ever.
C9_FiresForever ==
    /\ \A k \in 0..(MaxLoops - 1) :
        (starting > 0 /\ Len(loops) = k) ~> (Len(loops) > k)
    /\ [][\A l \in Loops :
            loops[l].pc # "exit" /\ loops'[l].pc = "exit" => Err(loops[l].done) # Nil]_vars
    /\ \A l \in 1..MaxLoops :
        <>[](Alive(l) /\ Err(loops[l].done) = Nil) => []<><<SelectTimer(l)>>_vars

\* C9: one goroutine, its handle live, has fired twice: two detached
\* invocations of the callback are in flight.
C9_Witness ==
    /\ Spawns = 1 /\ Len(loops) = 1 /\ Alive(1) /\ Err(loops[1].done) = Nil
    /\ j.isRunning /\ detached = 2

\* C10: no two inline invocations of the callback (the invocations of
\* blocking mode) run at the same time.
C10_InlineSerialized == Cardinality({l \in Loops : loops[l].pc = "call"}) <= 1

\* C11: a SetBlocking or SetTimezone that completes while a goroutine waits
\* on its armed timer leaves that goroutine's timer and its isBlocking as
\* they are; the timer branch runs the callback inline exactly when the
\* isBlocking taken at the top of the iteration says so, whatever j.Blocking
\* is by then; and the next iteration takes both values afresh.
C11_SnapshotGoverns ==
    /\ [][(\E b \in BOOLEAN : SetBlocking(b)) \/ (\E loc \in Zones : SetTimezone(loc))
            => \A l \in Loops : loops[l].pc = "select" => loops'[l] = loops[l]]_vars
    /\ [][\A l \in 1..MaxLoops : SelectTimer(l) =>
            IF loops[l].isBlocking
            THEN loops'[l].pc = "call" /\ detached' = detached
            ELSE loops'[l].pc = "top" /\ detached' = Min(detached + 1, MaxDetached)]_vars
    /\ [][\A l \in 1..MaxLoops : LoopArm(l) =>
            /\ loops'[l].isBlocking = j.Blocking
            /\ loops'[l].timer = ScheduleNext(j.Schedule, j.Timezone, now)]_vars

\* C11: a goroutine's timer has expired for a fire it armed in blocking
\* mode under UTC, and the Job has since been made non-blocking and moved
\* to another zone.
C11_Witness ==
    \E l \in Loops :
        /\ loops[l].pc = "select" /\ loops[l].timer = 0
        /\ loops[l].isBlocking /\ ~j.Blocking /\ j.Timezone # UTC

\* C12: the callback the timer branch invokes (j.Fn as the branch reads it)
\* is the callback the Job had when that iteration began, so an Execute that
\* completes during the wait does not reach the fire already armed.
C12_CallbackOfIteration ==
    [][\A l \in 1..MaxLoops : SelectTimer(l) => j.Fn = loops[l].fn]_vars

\* C13: a goroutine of the Job returns only when the handle the Job holds
\* at that moment is cancelled (by Stop, by a cancellation of its parent or
\* by a later WithContext): after WithContext on a running Job the goroutine
\* goes on under the new handle.
C13_NewHandleGoverns ==
    [][\A l \in Loops :
        loops[l].pc # "exit" /\ loops'[l].pc = "exit" => Err(j.Ctx) # Nil]_vars

\* C14: whenever a goroutine is about to take a step that reads the Job's
\* fields, it holds the mutex, so no call that writes those fields can run
\* at that moment: this for the reads at the top of an iteration (Timezone,
\* Blocking), for the reads of the timer branch (Fn, Ctx) and for Start's
\* read of Ctx before its go statement.
C14_LockedAccess ==
    /\ \A l \in 1..MaxLoops : ENABLED LoopArm(l) =>
            /\ \A b \in BOOLEAN : ~ENABLED SetBlocking(b)
            /\ \A loc \in Zones : ~ENABLED SetTimezone(loc)
    /\ \A l \in 1..MaxLoops : ENABLED SelectTimer(l) =>
            /\ \A fn \in Fns : ~ENABLED Execute(fn)
            /\ \A c \in {Background, External} : ~ENABLED WithContext(c)
    /\ ENABLED StartGo => \A c \in {Background, External} : ~ENABLED WithContext(c)

\* C15: the mutex is held for reading by exactly the goroutines between
\* their RLock and their RUnlock, each of which can go on to its RUnlock;
\* a goroutine waiting in its select or inside an inline callback holds
\* nothing, so that with no goroutine in that short section Stop, Start and
\* the setters can all take the mutex.
C15_NoLockAcrossWait ==
    /\ readers = Cardinality({l \in Loops : loops[l].pc = "locked"})
    /\ \A l \in Loops : loops[l].pc = "locked" => ENABLED LoopArm(l)
    /\ (\A l \in Loops : loops[l].pc \in {"top", "select", "call", "exit"}) =>
            /\ ENABLED Stop
            /\ j.isRunning => ENABLED Start
            /\ \A b \in BOOLEAN : ENABLED SetBlocking(b)
            /\ \A loc \in Zones : ENABLED SetTimezone(loc)
            /\ \A fn \in Fns : ENABLED Execute(fn)
            /\ Len(ctxs) < MaxCtx => \A c \in {Background, External} : ENABLED WithContext(c)

\* C15: Stop has taken the mutex and cancelled the handle while a goroutine
\* was inside its inline callback and another waited in its select.
C15_Witness ==
    /\ ~j.isRunning
    /\ \E l \in Loops : loops[l].pc = "call" /\ Err(loops[l].done) # Nil
    /\ \E l \in Loops : loops[l].pc = "select" /\ Err(loops[l].done) # Nil

\* C16: once the Job's handle is cancelled, no goroutine of the Job takes
\* the timer branch of its select any more: a select evaluated after the
\* cancellation takes case <-done.
C16_CancelledNeverFires ==
    [][\A l \in 1..MaxLoops : SelectTimer(l) => Err(j.Ctx) = Nil]_vars

\* C17: while the handle Schedule made has never been replaced, the
\* goroutine of a second Start (which only a Stop in between lets through)
\* never takes the timer branch: it invokes the callback zero times.
C17_RestartNeverFires ==
    [][Len(ctxs) = Len(CallerCtxs) + 1 => ~SelectTimer(2)]_vars

\* C18: a fire armed in non-blocking mode starts the callback in a
\* goroutine of its own and puts the loop back at the top of its next
\* iteration in the same step; no step of the loop waits for the detached
\* invocations, however many are in flight; and a goroutine whose done
\* channel is closed returns at last even if none of them ever returns.
C18_DetachedDispatch ==
    /\ [][\A l \in 1..MaxLoops : SelectTimer(l) /\ ~loops[l].isBlocking =>
            /\ loops'[l].pc = "top"
            /\ detached' = Min(detached + 1, MaxDetached)]_vars
    /\ [](\A l \in Loops :
            /\ loops[l].pc = "top" => ENABLED LoopRLock(l)
            /\ loops[l].pc = "locked" => ENABLED LoopArm(l)
            /\ loops[l].pc = "select" /\ loops[l].timer = 0 => ENABLED SelectTimer(l)
            /\ loops[l].pc = "select" /\ Err(loops[l].done) # Nil => ENABLED SelectDone(l))
    /\ \A l \in 1..MaxLoops :
        (detached > 0 /\ Alive(l) /\ Err(loops[l].done) # Nil) ~> ~Alive(l)

\* C18: Stop has ended the one goroutine of the Job while as many detached
\* invocations as are counted were still running.
C18_Witness ==
    /\ detached = MaxDetached /\ MaxDetached > 1
    /\ ~j.isRunning
    /\ Len(loops) = 1 /\ loops[1] = Exited

\* C19: every iteration arms its timer for the first instant the schedule
\* matches strictly after the time it read, never for that time itself;
\* the timer branch ends the wait, so that an iteration invokes the
\* callback once and the next fire needs a new iteration and a later
\* instant; and the instants that pass while a goroutine is not waiting
\* (inside an inline callback or on its way to the next wait) leave nothing
\* behind in it: none is queued to be fired later.
C19_NoReplay ==
    /\ [][\A l \in 1..MaxLoops : LoopArm(l) =>
            LET d == loops'[l].timer
                Matches(k) == ((now + k + Offset(j.Timezone)) % Cycle) \in j.Schedule.phases
            IN  /\ d >= 1 /\ d <= Cycle
                /\ Matches(d)
                /\ \A k \in 1..(d - 1) : ~Matches(k)]_vars
    /\ [][\A l \in 1..MaxLoops : SelectTimer(l) => loops'[l].pc \in {"call", "top"}]_vars
    /\ [][Tick => \A l \in Loops : loops[l].pc # "select" => loops'[l] = loops[l]]_vars
    /\ [](\A l \in Loops : loops[l].pc # "select" => loops[l].timer = 0)

\* C19: a goroutine in blocking mode began an iteration at an instant the
\* hourly schedule matches, and waits a whole cycle for the next one.
C19_Witness ==
    /\ j.scheduleStr = E5
    /\ \E l \in Loops :
        /\ loops[l].pc = "select" /\ loops[l].isBlocking
        /\ loops[l].timer = Cycle
        /\ ((now + Offset(j.Timezone)) % Cycle) \in j.Schedule.phases

\* C20: a goroutine takes the timer branch, and so begins an invocation of
\* the callback, only while the running flag is set: none begins after a
\* Stop on the running Job has returned.
C20_NoFireAfterStop ==
    [][\A l \in 1..MaxLoops : SelectTimer(l) => j.isRunning]_vars

====
